---- MODULE Spec2Model ----
(***************************************************************************)
(* Cursor/state machine of src/extract-cron.py: one invocation of main()   *)
(* loads the state files, scans the window [current_vid, end_vid) one      *)
(* identifier per loop iteration, and persists the state files on one of   *)
(* its two exits (gap rollback, line 243-261; normal end, line 267-292).   *)
(* Optional values (an absent file, Python None) are sequences of length   *)
(* 0 or 1.                                                                 *)
(***************************************************************************)
EXTENDS Integers, Sequences, FiniteSets, TLC

\* ---- bounds of the model -------------------------------------------------
MaxVid == 6          \* identifiers probed are START_VID..MaxVid
MaxDate == 1         \* record timestamps are 1..MaxDate
MaxRuns == 3         \* invocations of main() per behaviour

\* ---- program constants ------------------------------------------------------
START_VID == 1       \* line 41, scaled down from 831394104
LIMIT_403 == 5       \* line 236
BATCH_ROWS == 2      \* line 263, scaled down from 10

\* Parameter sets <<CHUNK_SIZE, PASS_LIMIT, GAP_THRESHOLD>> (lines 42-44, scaled
\* down): a gap threshold below the chunk size with two passes, a gap
\* threshold above the chunk size with three passes, and a single pass over a
\* window long enough for LIMIT_403 forbidden probes after an accepted one,
\* with the gap threshold above the chunk size as shipped.
Configs == { <<4, 2, 2>>, <<2, 3, 3>>, <<6, 1, 7>> }

VARIABLES
    \* parameters (src lines 42-44), fixed by Init
    CHUNK_SIZE, PASS_LIMIT, GAP_THRESHOLD,
    \* state files
    fileVid, fileDate, fileValid, filePass, fileGap, fileSeen, csv,
    \* locals of main()
    pc, current_vid, last_date, last_valid_vid, pass_count, consecutive_gaps,
    seen, end_vid, collected, newest_date, newest_vid, count_403,
    \* history of the behaviour (not program state)
    runs, hStart, hProbed, hAccepted, hRun403, hOnlyEmpty, hFirstRun, hPath,
    hBreak, hHit, hRehit, hCycle, hCsv0, hPass0, hDate0, hObs, hLast,
    hTop, hStall

params == <<CHUNK_SIZE, PASS_LIMIT, GAP_THRESHOLD>>
files == <<fileVid, fileDate, fileValid, filePass, fileGap, fileSeen, csv>>
locals == <<pc, current_vid, last_date, last_valid_vid, pass_count,
            consecutive_gaps, seen, end_vid, collected, newest_date,
            newest_vid, count_403>>
hist == <<runs, hStart, hProbed, hAccepted, hRun403, hOnlyEmpty, hFirstRun,
          hPath, hBreak, hHit, hRehit, hCycle, hCsv0, hPass0, hDate0,
          hObs, hLast, hTop, hStall>>
vars == <<params, files, locals, hist>>

Vids == START_VID..MaxVid
Dates == 1..MaxDate

None == <<>>
Some(v) == <<v>>
Opt(S) == {None} \cup {Some(v) : v \in S}

\* Python truthiness of an optional integer: None and 0 are false.
Truthy(o) == o # None /\ o[1] # 0

\* ---- helpers ---------------------------------------------------------------
load_int(file, default) == IF file = None THEN default ELSE file[1]

save_int(val) == Some(val)

\* load_str + parse_date: "" (absent file) parses to None, a saved isoformat
\* string parses back to the timestamp that was saved.
load_date(file) == file

\* mutant: every invocation starts with an empty Deduplication Set
load_seen_Empty(file) == {}

load_seen(file) == file

save_seen(s) == s

\* newest_date > last_date on two present timestamps
Newer(d, ref) == d # None /\ (ref = None \/ d[1] > ref[1])

RECURSIVE write_rows(_, _)
write_rows(sink, rows) ==
    IF rows = <<>> THEN sink
    ELSE write_rows([sink EXCEPT ![Head(rows)] = @ + 1], Tail(rows))

\* ---- probe outcomes (fetch_search + shape of the payload) ------------------
\* ok/empty: status ok, no data.  ok/record: data[0] with the filter verdict
\* and the parsed date of the record (None when unparsable).
Outcomes ==
    {[status |-> "ok", data |-> FALSE, pass |-> FALSE, dt |-> None]}
    \cup {[status |-> "ok", data |-> TRUE, pass |-> p, dt |-> d] :
             p \in BOOLEAN, d \in Opt(Dates)}
    \cup {[status |-> s, data |-> FALSE, pass |-> FALSE, dt |-> None] :
             s \in {"404", "403", "429", "err"}}

\* ---- initial state: first run, no state file exists ------------------------
IdleLocals ==
    /\ current_vid = START_VID /\ last_date = None
    /\ last_valid_vid = START_VID /\ pass_count = 0 /\ consecutive_gaps = 0
    /\ seen = {} /\ end_vid = START_VID /\ collected = <<>>
    /\ newest_date = None /\ newest_vid = None /\ count_403 = 0

Init ==
    /\ \E c \in Configs :
          CHUNK_SIZE = c[1] /\ PASS_LIMIT = c[2] /\ GAP_THRESHOLD = c[3]
    /\ fileVid = None /\ fileDate = None /\ fileValid = None
    /\ filePass = None /\ fileGap = None /\ fileSeen = {}
    /\ csv = [v \in Vids |-> 0]
    /\ pc = "idle" /\ IdleLocals
    /\ runs = 0 /\ hStart = START_VID /\ hProbed = <<>> /\ hAccepted = {}
    /\ hRun403 = 0 /\ hOnlyEmpty = TRUE /\ hFirstRun = FALSE /\ hPath = "none"
    /\ hBreak = FALSE
    /\ hHit = {} /\ hRehit = {} /\ hCsv0 = [v \in Vids |-> 0]
    /\ hPass0 = 0 /\ hDate0 = None
    /\ hObs = [dt |-> None, vid |-> None] /\ hLast = "none"
    /\ hTop = [dt |-> None, vid |-> None]
    /\ hStall = [n |-> 0, last |-> 0]
    /\ hCycle = [pos |-> START_VID, len |-> 0, accepted |-> FALSE, rolled |-> FALSE]

\* main() returns: its locals are dead
Return ==
    /\ pc' = "idle"
    /\ current_vid' = START_VID /\ last_date' = None
    /\ last_valid_vid' = START_VID /\ pass_count' = 0 /\ consecutive_gaps' = 0
    /\ seen' = {} /\ end_vid' = START_VID /\ collected' = <<>>
    /\ newest_date' = None /\ newest_vid' = None /\ count_403' = 0

\* ---- main(), lines 182-196: load the state files ---------------------------
Load ==
    /\ pc = "idle"
    /\ runs < MaxRuns
    /\ load_int(fileVid, START_VID) + CHUNK_SIZE - 1 <= MaxVid
    /\ current_vid' = load_int(fileVid, START_VID)
    /\ last_date' = load_date(fileDate)
    /\ last_valid_vid' = load_int(fileValid, START_VID)
    /\ pass_count' = load_int(filePass, 0)
    /\ consecutive_gaps' = load_int(fileGap, 0)
    /\ seen' = load_seen(fileSeen)
    /\ end_vid' = load_int(fileVid, START_VID) + CHUNK_SIZE
    /\ collected' = <<>>
    /\ newest_date' = load_date(fileDate)
    /\ newest_vid' = None
    /\ count_403' = 0
    /\ pc' = "loop"
    /\ runs' = runs + 1
    /\ hStart' = load_int(fileVid, START_VID)
    /\ hProbed' = <<>> /\ hAccepted' = {} /\ hRun403' = 0 /\ hOnlyEmpty' = TRUE
    /\ hFirstRun' = (fileValid = None /\ fileDate = None
                     /\ load_int(fileGap, 0) = 0)
    /\ hPath' = "running" /\ hBreak' = FALSE
    /\ hCycle' = IF load_int(filePass, 0) = 0
                 THEN [pos |-> load_int(fileVid, START_VID), len |-> 0,
                       accepted |-> FALSE, rolled |-> FALSE]
                 ELSE hCycle
    /\ hRehit' = {} /\ hCsv0' = csv
    /\ hPass0' = load_int(filePass, 0) /\ hDate0' = load_date(fileDate)
    /\ hObs' = [dt |-> IF fileValid = None THEN load_date(fileDate) ELSE None,
                 vid |-> None]
    /\ hLast' = "none"
    /\ hTop' = [dt |-> load_date(fileDate), vid |-> None]
    /\ UNCHANGED <<params, files, hHit, hStall>>

\* ---- main(), lines 198-265: one iteration of the scan loop -----------------
\* mutant: the Deduplication Set is not consulted
Accepts_NoDedup(o) ==
    o.status = "ok" /\ o.data /\ o.pass

\* line 209: the record is kept
Accepts(o) ==
    o.status = "ok" /\ o.data /\ o.pass /\ current_vid \notin seen

\* mutant: a throttled probe counts as a gap
GapsAfter_Throttle(o) ==
    IF Accepts(o) THEN 0
    ELSE IF o.status \in {"ok", "404", "403", "429"} THEN consecutive_gaps + 1
    ELSE consecutive_gaps

\* mutant: a fetched record resets the gap count before the filter is run
GapsAfter_Reset(o) ==
    IF Accepts(o) THEN 0
    ELSE IF o.status = "ok" /\ o.data THEN 1
    ELSE IF o.status \in {"ok", "404"} THEN consecutive_gaps + 1
    ELSE consecutive_gaps

\* lines 204-205, 210, 220, 226: consecutive_gaps after the branch
GapsAfter(o) ==
    IF Accepts(o) THEN 0
    ELSE IF o.status \in {"ok", "404"} THEN consecutive_gaps + 1
    ELSE consecutive_gaps

\* line 216: the kept record carries a newer date
NewerKept(o) == Accepts(o) /\ Newer(o.dt, newest_date)

\* lines 234-236: count_403 after the branch
Count403After(o) == IF o.status = "403" THEN count_403 + 1 ELSE count_403

\* mutant: forbidden responses never end the run
Breaks_Never(o) == FALSE

\* lines 236-238: the loop is left by break
Breaks(o) == o.status = "403" /\ Count403After(o) >= LIMIT_403

\* mutant: a throttled identifier is probed again
NextVid_Retry(o) ==
    IF o.status \in {"403", "429"} THEN current_vid ELSE current_vid + 1

\* lines 223, 228, 239, 241: every branch that stays in the loop moves on
NextVid(o) == current_vid + 1

\* mutant: the rollback always goes back to the start of the space
RollbackTarget_Start(valid, newest) == START_VID

\* mutant: the rollback keeps the position the scan has reached
RollbackTarget_Stay(valid, newest) == current_vid + 1

\* lines 246-254: where the rollback puts current_vid
RollbackTarget(valid, newest) ==
    IF valid # 0 THEN valid
    ELSE IF Truthy(newest) THEN newest[1]
    ELSE START_VID

\* lines 243-261: the gap threshold is hit; state is saved and main() returns
Rollback(o) ==
    /\ fileSeen' = save_seen(IF Accepts(o) THEN seen \cup {current_vid} ELSE seen)
    /\ fileVid' = save_int(RollbackTarget(
                      IF Accepts(o) THEN current_vid ELSE last_valid_vid,
                      IF NewerKept(o) THEN Some(current_vid) ELSE newest_vid))
    /\ filePass' = save_int(0)
    /\ fileGap' = save_int(0)
    /\ UNCHANGED <<fileDate, fileValid, csv>>
    /\ Return

\* lines 263-265: a full batch is written, and the rest of the iteration
Continue(o) ==
    LET col == IF Accepts(o) THEN Append(collected, current_vid) ELSE collected
    IN  /\ IF Len(col) >= BATCH_ROWS
           THEN csv' = write_rows(csv, col) /\ collected' = <<>>
           ELSE csv' = csv /\ collected' = col
        /\ seen' = IF Accepts(o) THEN seen \cup {current_vid} ELSE seen
        /\ last_valid_vid' = IF Accepts(o) THEN current_vid ELSE last_valid_vid
        /\ newest_date' = IF NewerKept(o) THEN o.dt ELSE newest_date
        /\ newest_vid' = IF NewerKept(o) THEN Some(current_vid) ELSE newest_vid
        /\ consecutive_gaps' = GapsAfter(o)
        /\ count_403' = Count403After(o)
        /\ current_vid' = NextVid(o)
        /\ pc' = "loop"
        /\ UNCHANGED <<fileVid, fileDate, fileValid, filePass, fileGap, fileSeen,
                       last_date, pass_count, end_vid>>

\* lines 236-238: break leaves current_vid and everything but count_403 alone
Break(o) ==
    /\ count_403' = Count403After(o)
    /\ pc' = "exit"
    /\ UNCHANGED <<files, current_vid, last_date, last_valid_vid, pass_count,
                   consecutive_gaps, seen, end_vid, collected, newest_date,
                   newest_vid>>

\* what the probe returned: a record, nothing usable (empty body or
\* not-found), forbidden, or a probe to skip (rate-limited, transport error)
Kind(o) ==
    IF o.status = "ok" /\ o.data THEN "record"
    ELSE IF o.status \in {"ok", "404"} THEN "gap"
    ELSE IF o.status = "403" THEN "forbidden"
    ELSE "skip"

Probe(o) ==
    /\ pc = "loop"
    /\ current_vid < end_vid
    /\ IF Breaks(o) THEN Break(o)
       ELSE IF GapsAfter(o) >= GAP_THRESHOLD THEN Rollback(o)
       ELSE Continue(o)
    /\ hProbed' = Append(hProbed, current_vid)
    /\ hAccepted' = IF Accepts(o) THEN hAccepted \cup {current_vid} ELSE hAccepted
    /\ hRun403' = IF o.status = "403" THEN hRun403 + 1 ELSE 0
    /\ hOnlyEmpty' = (hOnlyEmpty /\ (o.status = "404"
                                     \/ (o.status = "ok" /\ ~o.data)))
    /\ hBreak' = Breaks(o)
    /\ IF o.status = "ok" /\ o.data /\ o.pass
       THEN /\ hHit' = hHit \cup {current_vid}
            /\ hRehit' = IF current_vid \in hHit
                         THEN hRehit \cup {current_vid} ELSE hRehit
       ELSE UNCHANGED <<hHit, hRehit>>
    /\ IF ~Breaks(o) /\ GapsAfter(o) >= GAP_THRESHOLD
       THEN /\ hPath' = "rollback"
            /\ hCycle' = [hCycle EXCEPT !.len = @ + 1, !.rolled = TRUE,
                              !.accepted = @ \/ hAccepted' # {}]
            /\ hStall' = [n |-> 0, last |-> 0]
       ELSE UNCHANGED <<hPath, hCycle, hStall>>
    /\ hObs' = IF hAccepted' # {} \/ fileValid # None
                THEN [dt |-> None, vid |-> None]
                ELSE IF o.status = "ok" /\ o.data /\ Newer(o.dt, hObs.dt)
                THEN [dt |-> o.dt, vid |-> Some(current_vid)] ELSE hObs
    /\ hLast' = Kind(o)
    /\ hTop' = IF Accepts(o) /\ Newer(o.dt, hTop.dt)
                THEN [dt |-> o.dt, vid |-> Some(current_vid)] ELSE hTop
    /\ UNCHANGED <<params, runs, hStart, hFirstRun, hCsv0, hPass0, hDate0>>

StepOk == \E o \in Outcomes : o.status = "ok" /\ Probe(o)

Step404 == \E o \in Outcomes : o.status = "404" /\ Probe(o)

StepThrottle == \E o \in Outcomes : o.status \in {"403", "429"} /\ Probe(o)

StepErr == \E o \in Outcomes : o.status = "err" /\ Probe(o)

\* ---- main(), lines 267-292: the loop is over; flush, save, pass management --
\* mutant: the final pass comes one pass too late
FinalPass_Strict == pass_count + 1 > PASS_LIMIT

\* mutant: pass_count is compared before it is incremented
FinalPass_Late == pass_count >= PASS_LIMIT

FinalPass == pass_count + 1 >= PASS_LIMIT

\* mutant: the final pass goes to the last valid identifier
AdvanceTarget_Valid == last_valid_vid

\* mutant: the final pass always advances to the end of the window
AdvanceTarget_End == end_vid

\* lines 276-288: position saved by the final pass
AdvanceTarget ==
    IF Newer(newest_date, last_date) /\ Truthy(newest_vid)
    THEN newest_vid[1] ELSE end_vid

\* mutant: a pass that is not final saves where the scan stopped
RepeatTarget_Moved == current_vid

\* line 290: position saved by a pass that is not the final one
RepeatTarget == load_int(fileVid, START_VID)

Finish ==
    /\ \/ pc = "loop" /\ ~(current_vid < end_vid)
       \/ pc = "exit"
    /\ csv' = write_rows(csv, collected)
    /\ fileSeen' = save_seen(seen)
    /\ fileValid' = save_int(last_valid_vid)
    /\ fileGap' = save_int(consecutive_gaps)
    /\ IF FinalPass
       THEN /\ fileDate' = IF Newer(newest_date, last_date)
                           THEN newest_date ELSE fileDate
            /\ fileVid' = save_int(AdvanceTarget)
            /\ filePass' = save_int(0)
       ELSE /\ fileDate' = fileDate
            /\ fileVid' = save_int(RepeatTarget)
            /\ filePass' = save_int(pass_count + 1)
    /\ Return
    /\ hPath' = IF FinalPass THEN "final" ELSE "repeat"
    /\ hCycle' = [hCycle EXCEPT !.len = @ + 1, !.accepted = @ \/ hAccepted # {}]
    /\ hObs' = [dt |-> None, vid |-> None] /\ hLast' = "none"
    /\ hStall' = IF load_int(fileVid', START_VID) > load_int(fileVid, START_VID)
                 THEN [n |-> 0, last |-> hStall.n + 1]
                 ELSE [n |-> hStall.n + 1, last |-> 0]
    /\ UNCHANGED <<params, runs, hStart, hProbed, hAccepted, hRun403,
                   hOnlyEmpty, hFirstRun, hBreak, hHit, hRehit, hCsv0,
                   hPass0, hDate0, hTop>>

Next == Load \/ StepOk \/ Step404 \/ StepThrottle \/ StepErr \/ Finish

Spec == Init /\ [][Next]_vars

TypeOK ==
    /\ pc \in {"idle", "loop", "exit"}
    /\ fileVid \in Opt(Vids \cup {MaxVid + 1}) /\ fileValid \in Opt(Vids)
    /\ fileDate \in Opt(Dates) /\ fileSeen \subseteq Vids
    /\ filePass \in Opt(0..PASS_LIMIT - 1) /\ fileGap \in Opt(0..GAP_THRESHOLD - 1)
    /\ csv \in [Vids -> 0..1]
    /\ current_vid \in START_VID..MaxVid + 1 /\ end_vid \in START_VID..MaxVid + 1
    /\ last_valid_vid \in Vids /\ seen \subseteq Vids
    /\ last_date \in Opt(Dates) /\ newest_date \in Opt(Dates)
    /\ newest_vid \in Opt(Vids)
    /\ pass_count \in 0..PASS_LIMIT - 1
    /\ consecutive_gaps \in 0..GAP_THRESHOLD - 1
    /\ count_403 \in 0..LIMIT_403
    /\ Len(collected) < BATCH_ROWS

\* the scan loop runs on its own: an iteration or the exit code is taken
FairSpec ==
    Spec /\ WF_vars(StepOk \/ Step404 \/ StepThrottle \/ StepErr)
         /\ WF_vars(Finish)

\* ---- vocabulary of the properties -----------------------------------------
Position == load_int(fileVid, START_VID)

\* an invocation has run to its end and none is in progress
Ended == pc = "idle" /\ hPath # "none"

Max(S) == CHOOSE x \in S : \A y \in S : y <= x

\* the rollback anchor the invocation holds when it ends: the identifier it
\* accepted last, else the one it loaded
Anchor == IF hAccepted # {} THEN Max(hAccepted) ELSE load_int(fileValid, START_VID)

AnchorKnown == hAccepted # {} \/ fileValid # None

\* ---- C1 ---------------------------------------------------------------------
\* C1 (as claimed): once an invocation in which the Record Source returned a
\* filter-passing record for an identifier that had already returned one in
\* an earlier invocation has ended, the Sink holds exactly one row for that
\* identifier and the persisted Deduplication Set holds it.
C1_IdempotentDedup ==
    Ended => \A i \in hRehit : csv[i] = 1 /\ i \in fileSeen

\* ---- C2 ---------------------------------------------------------------------
\* C2 (as claimed): no step lowers the persisted last_valid_position.
C2_AnchorNeverDecreases ==
    [][fileValid # None => (fileValid' # None /\ fileValid'[1] >= fileValid[1])]_vars

\* ---- C3 ---------------------------------------------------------------------
\* C3: the loop never goes on with gap_count at the threshold, and an invocation
\* that took the gap rollback with a known last_valid_position L has ended, with
\* persisted position L and persisted gap_count 0; the identifier that
\* triggered it is the last one probed.
C3_GapRollback ==
    /\ pc # "idle" => consecutive_gaps < GAP_THRESHOLD
    /\ hPath = "rollback" =>
          /\ pc = "idle"
          /\ fileGap = Some(0)
          /\ AnchorKnown => Position = Anchor
          /\ hProbed # <<>> /\ hProbed[Len(hProbed)] = hStart + Len(hProbed) - 1

\* a rollback to an anchor other than the default, with identifiers of the
\* window left unprobed
C3_Witness ==
    /\ Ended /\ hPath = "rollback" /\ AnchorKnown
    /\ Anchor # START_VID /\ Position = Anchor
    /\ Len(hProbed) < CHUNK_SIZE

\* ---- C4 ---------------------------------------------------------------------
\* C4 (as claimed): counting the invocations since pass_count was loaded as 0,
\* none of which accepted a record, position is where the first one started
\* after each of the first PASS_LIMIT - 1, and is that start + CHUNK_SIZE,
\* with pass_count 0, after the PASS_LIMIT-th.
C4_PassCycling_AsClaimed ==
    (Ended /\ ~hCycle.accepted /\ hCycle.len >= 1) =>
        /\ hCycle.len < PASS_LIMIT => Position = hCycle.pos
        /\ hCycle.len = PASS_LIMIT =>
              Position = hCycle.pos + CHUNK_SIZE /\ filePass = Some(0)

\* C4 (amended): the same, for invocations none of which took the gap rollback.
C4_PassCycling ==
    (Ended /\ ~hCycle.accepted /\ ~hCycle.rolled /\ hCycle.len >= 1) =>
        /\ hCycle.len <= PASS_LIMIT
        /\ hCycle.len < PASS_LIMIT =>
              Position = hCycle.pos /\ filePass = Some(hCycle.len)
        /\ hCycle.len = PASS_LIMIT =>
              Position = hCycle.pos + CHUNK_SIZE /\ filePass = Some(0)

\* three invocations with pass_limit 3 have advanced the window
C4_Witness ==
    /\ Ended /\ ~hCycle.accepted /\ ~hCycle.rolled
    /\ PASS_LIMIT = 3 /\ hCycle.len = 3
    /\ Position = hCycle.pos + CHUNK_SIZE /\ filePass = Some(0)

\* ---- C5 ---------------------------------------------------------------------
\* C5: once LIMIT_403 probes in a row have returned forbidden, the loop is
\* left (no further identifier is probed), the invocation ends through the
\* normal exit, and when it has ended every identifier it accepted has a row in
\* the Sink and is in the persisted Deduplication Set.
C5_ForbiddenRun ==
    hRun403 >= LIMIT_403 =>
        /\ pc # "loop"
        /\ hPath # "rollback"
        /\ pc = "exit" => current_vid = hProbed[Len(hProbed)]
        /\ pc = "idle" => \A i \in hAccepted : csv[i] >= 1 /\ i \in fileSeen

\* a run of forbidden probes ended an invocation that had accepted a record
C5_Witness ==
    /\ Ended /\ hRun403 >= LIMIT_403 /\ hAccepted # {}
    /\ \A i \in hAccepted : csv[i] = 1 /\ hCsv0[i] = 0

\* ---- C6 ---------------------------------------------------------------------
\* C6: from a state with no last_valid_position file, no timestamp file and
\* gap_count 0, with GAP_THRESHOLD < CHUNK_SIZE, once the first GAP_THRESHOLD
\* probes have all been empty or not-found the invocation has ended by
\* rollback after exactly that many probes, position is START_VID and the
\* Sink is as the invocation found it.
C6_FreshStateGap ==
    (hFirstRun /\ GAP_THRESHOLD < CHUNK_SIZE /\ hOnlyEmpty
        /\ Len(hProbed) >= GAP_THRESHOLD) =>
        /\ pc = "idle" /\ hPath = "rollback"
        /\ Len(hProbed) = GAP_THRESHOLD
        /\ Position = START_VID
        /\ csv = hCsv0

\* such a rollback from a window that did not start at START_VID
C6_Witness ==
    /\ Ended /\ hFirstRun /\ hOnlyEmpty /\ GAP_THRESHOLD < CHUNK_SIZE
    /\ Len(hProbed) = GAP_THRESHOLD /\ hStart # START_VID
    /\ Position = START_VID

\* ---- C7 ---------------------------------------------------------------------
\* C7: between invocations every identifier with a row in the Sink is in the
\* persisted Deduplication Set, and no identifier has more than one row.
C7_SinkDedup ==
    pc = "idle" => \A i \in Vids : csv[i] <= 1 /\ (csv[i] >= 1 => i \in fileSeen)

\* an identifier whose record came back a second time has one row
C7_Witness ==
    Ended /\ \E i \in hRehit : csv[i] = 1 /\ i \in fileSeen

\* ---- C8 ---------------------------------------------------------------------
\* C8 (as claimed): when an invocation has ended by the gap rollback, every
\* identifier it accepted has a row in the Sink and the persisted
\* last_valid_position is the identifier it accepted last.
C8_RollbackPersists ==
    (Ended /\ hPath = "rollback" /\ hAccepted # {}) =>
        /\ \A i \in hAccepted : csv[i] >= 1
        /\ fileValid = Some(Max(hAccepted))

\* ---- C9 ---------------------------------------------------------------------
\* C9 (as claimed): an invocation has written pass_count 0 if and only if the
\* position it persisted is greater than the one it started from.
C9_ResetIffAdvance_AsClaimed ==
    Ended => (filePass = Some(0) <=> Position > hStart)

\* C9 (amended): an invocation that persisted a position greater than the one
\* it started from has written pass_count 0.
C9_AdvanceResets ==
    (Ended /\ Position > hStart) => filePass = Some(0)

\* a final pass moved the window forward
C9_Witness ==
    Ended /\ hPath = "final" /\ Position > hStart /\ filePass = Some(0)

\* ---- C10 --------------------------------------------------------------------
\* the identifiers probed so far are the first ones of the window, in order,
\* and the loop stands right behind the last of them
ProbedInOrder ==
    /\ Len(hProbed) <= CHUNK_SIZE
    /\ \A k \in 1..Len(hProbed) : hProbed[k] = hStart + k - 1
    /\ pc = "loop" => current_vid = hStart + Len(hProbed)
                      /\ end_vid = hStart + CHUNK_SIZE

\* a step of a running invocation either probes the next identifier and stays
\* in the loop, or leaves the loop; the step that ends the invocation leaves
\* position, pass_count and gap_count persisted
ScanProgress ==
    /\ (pc = "loop" /\ pc' = "loop") =>
          /\ hProbed' = Append(hProbed, current_vid)
          /\ current_vid' = current_vid + 1
    /\ pc = "exit" => pc' = "idle"
    /\ (pc # "idle" /\ pc' = "idle") =>
          fileVid' # None /\ filePass' # None /\ fileGap' # None

\* C10: an invocation probes the identifiers of its window in increasing
\* order, each at most once, so at most CHUNK_SIZE of them: every step that
\* stays in the loop consumes one identifier of the window, whatever the
\* outcome, and the step that ends the invocation persists the state.
C10_BoundedScan == []ProbedInOrder /\ [][ScanProgress]_vars

\* an invocation probed its whole window, throttled and failed probes among
\* them, and ended
C10_Witness ==
    Ended /\ Len(hProbed) = CHUNK_SIZE /\ CHUNK_SIZE >= 4 /\ hRun403 >= 1

\* ---- C11 --------------------------------------------------------------------
\* C11 (as claimed): an invocation ended by the forbidden-run limit has not
\* counted as a pass: the persisted pass_count is the one it loaded, and the
\* persisted position is not beyond the identifier it stopped at.
C11_ForbiddenRunIsNoPass ==
    (Ended /\ hBreak) =>
        /\ filePass = Some(hPass0)
        /\ Position <= hProbed[Len(hProbed)]

\* ---- C12 --------------------------------------------------------------------
\* hObs is kept while the invocation holds no last_valid_position (none
\* persisted, no record accepted): the first record it has seen, kept or not,
\* with the newest timestamp above the last_seen_timestamp loaded

\* C12 (as claimed): an invocation that took the gap rollback has persisted as
\* position its last_valid_position if one is known (accepted in this
\* invocation or found persisted), otherwise the identifier of the record with
\* the newest timestamp above last_seen_timestamp it has seen, kept or not,
\* otherwise START_VID.
C12_RollbackOrder ==
    (Ended /\ hPath = "rollback") =>
        Position = IF AnchorKnown THEN Anchor
                   ELSE IF hObs.vid # None THEN hObs.vid[1]
                   ELSE START_VID

\* ---- C13 --------------------------------------------------------------------
\* the step is a probe
Probed == hProbed' # hProbed

\* the probe of the step returned a record that was accepted
KeptNow == hLast' = "record" /\ current_vid \in hAccepted'

\* the probe of the step returned a record that was rejected or already seen
RejectedNow == hLast' = "record" /\ current_vid \notin hAccepted'

\* C13 (as claimed): after a step that stays in the loop, gap_count is 0 if
\* the probe returned a record that was accepted, 1 if it returned a record
\* that was rejected or already seen, and one more than before if the probe
\* was empty or not-found.
C13_GapAccounting_AsClaimed ==
    [][(Probed /\ pc' = "loop") =>
          /\ KeptNow => consecutive_gaps' = 0
          /\ RejectedNow => consecutive_gaps' = 1
          /\ hLast' = "gap" => consecutive_gaps' = consecutive_gaps + 1]_vars

\* C13 (amended): after a step that stays in the loop, gap_count is 0 if the
\* probe returned a record that was accepted, and one more than before if it
\* returned a record that was rejected or already seen, or was empty or
\* not-found; a step ends the invocation by rollback only on such a probe
\* that takes gap_count to the threshold.
C13_GapAccounting ==
    [][/\ (Probed /\ pc' = "loop") =>
             /\ KeptNow => consecutive_gaps' = 0
             /\ (RejectedNow \/ hLast' = "gap") =>
                   consecutive_gaps' = consecutive_gaps + 1
       /\ (Probed /\ pc' = "idle") =>
             /\ RejectedNow \/ hLast' = "gap"
             /\ consecutive_gaps + 1 = GAP_THRESHOLD
             /\ fileGap' = Some(0)]_vars

\* the loop goes on with gap_count above 1 right after a record that was not
\* accepted
C13_Witness ==
    /\ pc = "loop" /\ consecutive_gaps >= 2 /\ hLast = "record"
    /\ hProbed[Len(hProbed)] \notin hAccepted

\* ---- C14 --------------------------------------------------------------------
\* hTop is the accepted record of the invocation with the newest timestamp
\* above the last_seen_timestamp loaded (the first one, when several carry it)

\* C14 (as claimed): when an invocation that accepted a record with a timestamp
\* above the last_seen_timestamp it loaded has ended, the persisted
\* last_seen_timestamp is at least that timestamp.
C14_TimestampTracksAccepted ==
    (Ended /\ hTop.vid # None) =>
        fileDate # None /\ fileDate[1] >= hTop.dt[1]

C16_ThrottleFrame ==
    [][(Probed /\ hLast' \in {"forbidden", "skip"}) =>
          /\ pc' # "idle"
          /\ UNCHANGED <<files, consecutive_gaps, seen, last_valid_vid,
                         newest_date, newest_vid, collected>>
          /\ count_403' = IF hLast' = "forbidden" THEN count_403 + 1 ELSE count_403
          /\ IF pc' = "loop"
             THEN current_vid' = current_vid + 1
             ELSE /\ pc' = "exit" /\ hLast' = "forbidden"
                  /\ count_403' >= LIMIT_403]_vars

\* the loop goes on after such a probe with gaps counted and a row pending
C16_Witness ==
    /\ pc = "loop" /\ hLast \in {"forbidden", "skip"}
    /\ consecutive_gaps >= 1 /\ collected # <<>>

\* ---- C17 --------------------------------------------------------------------
\* C17 (as claimed): the loop is left on forbidden responses only when the
\* last LIMIT_403 probes of the invocation all returned forbidden.
C17_ForbiddenRunIsConsecutive ==
    hBreak => hRun403 >= LIMIT_403

\* ---- C18 --------------------------------------------------------------------
\* C18: an invocation that ended without the gap rollback has persisted a
\* position between the position it started from and the window end.
C18_NoBackwardWithoutRollback ==
    (Ended /\ hPath # "rollback") =>
        hStart <= Position /\ Position <= hStart + CHUNK_SIZE

\* a final pass put the position strictly inside the window
C18_Witness ==
    /\ Ended /\ hPath = "final"
    /\ hStart < Position /\ Position < hStart + CHUNK_SIZE

\* ---- C19 --------------------------------------------------------------------
\* C19: after every invocation the persisted pass_count is in
\* 0..PASS_LIMIT-1 and the persisted gap_count is in 0..GAP_THRESHOLD-1.
C19_CountersInRange ==
    Ended =>
        /\ filePass \in {Some(n) : n \in 0..PASS_LIMIT - 1}
        /\ fileGap \in {Some(n) : n \in 0..GAP_THRESHOLD - 1}

\* both counters at the top of their range
C19_Witness ==
    /\ Ended /\ PASS_LIMIT >= 2
    /\ filePass = Some(PASS_LIMIT - 1) /\ fileGap = Some(GAP_THRESHOLD - 1)


====
